---- MODULE Spec2Model ----
(***************************************************************************)
(* Model of octoprint_psucontrol_tplink/__init__.py (PSUControl_TPLink):   *)
(* the settings reload, the outlet operations (turn_psu_on/off, the        *)
(* per-outlet on/off/state calls), the child-id lookup of send_to_plug,    *)
(* the interpretation of the system info by get_plug_state, and the error  *)
(* handling of send.                                                       *)
(***************************************************************************)
EXTENDS Integers, Sequences, FiniteSets, TLC

VARIABLES
    settings,   \* the host's settings store (self._settings), one value per key
    hist,       \* history: every content the settings store has had, oldest first
    config,     \* self.config
    cfgVer,     \* history: for each key of self.config, the store version it was read from
    savePc,     \* on_settings_save: 0 = not running, i = about to reload key ReloadKeys[i]
    op,         \* the running operation: its name, its position, the store version completed at its start
    call,       \* locals of the current per-outlet call (host, plug, device_id, ...)
    trace,      \* history: the send() invocations of the running operation, in order
    xchg,       \* history: what the network did on the last send() and what send() gave back
    result,     \* how the running operation ended (returned value or escaping exception)
    cdc,        \* the codec applied to one text: the text, encrypt's result, decrypt's result
    tp          \* send() against a device byte by byte: its position, its locals, the sockets made

vars == <<settings, hist, config, cfgVer, savePc, op, call, trace, xchg, result, cdc, tp>>

-----------------------------------------------------------------------------
(* Python values. Every value is tagged with its type, v holds the content: *)
(* a dict is a set of <<key, value>> pairs, a list is a sequence.           *)

PyNone == [t |-> "None", v |-> 0]
PyInt(n) == [t |-> "int", v |-> n]
PyBool(b) == [t |-> "bool", v |-> b]
PyStr(s) == [t |-> "str", v |-> s]
PyList(s) == [t |-> "list", v |-> s]
PyDict(pairs) == [t |-> "dict", v |-> pairs]
EmptyDict == PyDict({})

(* Outcome of evaluating an expression or a call: a value or an exception. *)
Ret(x) == [k |-> "ret", v |-> x]
Raise(e) == [k |-> "raise", v |-> [t |-> "exc", v |-> e]]
IsRaise(r) == r.k = "raise"
ExcOf(r) == r.v.v

(* The exception classes involved and their base class (Python 3). *)
ExcParent(e) ==
    CASE e = "socket.gaierror" -> "OSError"
      [] e = "socket.timeout" -> "OSError"
      [] e = "ConnectionRefusedError" -> "ConnectionError"
      [] e = "ConnectionResetError" -> "ConnectionError"
      [] e = "BrokenPipeError" -> "ConnectionError"
      [] e = "ConnectionError" -> "OSError"
      [] e = "OSError" -> "Exception"
      [] e = "struct.error" -> "Exception"
      [] e = "JSONDecodeError" -> "ValueError"
      [] e = "UnicodeEncodeError" -> "ValueError"
      [] e = "ValueError" -> "Exception"
      [] e = "KeyError" -> "LookupError"
      [] e = "IndexError" -> "LookupError"
      [] e = "LookupError" -> "Exception"
      [] e = "TypeError" -> "Exception"
      [] OTHER -> "BaseException"

RECURSIVE IsInstance(_, _)
IsInstance(e, cls) ==
    IF e = cls THEN TRUE
    ELSE IF e = "BaseException" THEN FALSE
    ELSE IsInstance(ExcParent(e), cls)

(* An except clause naming the classes in handlers catches e. *)
Caught(e, handlers) == \E h \in handlers : IsInstance(e, h)

(* x[key] as Python evaluates it: KeyError for a key a dict lacks,          *)
(* IndexError for a list index out of range, TypeError for a subscript the  *)
(* type does not take. Strings of the model are single characters.          *)
GetItem(x, key) ==
    CASE x.t = "dict" ->
            IF key.t = "str" /\ \E p \in x.v : p[1] = key.v
            THEN Ret((CHOOSE p \in x.v : p[1] = key.v)[2])
            ELSE Raise("KeyError")
      [] x.t = "list" ->
            IF key.t # "int" THEN Raise("TypeError")
            ELSE IF key.v >= 0 /\ key.v < Len(x.v) THEN Ret(x.v[key.v + 1])
            ELSE IF key.v < 0 /\ key.v >= -Len(x.v) THEN Ret(x.v[Len(x.v) + key.v + 1])
            ELSE Raise("IndexError")
      [] x.t = "str" ->
            IF key.t # "int" THEN Raise("TypeError")
            ELSE IF key.v = 0 \/ key.v = -1 THEN Ret(x)
            ELSE Raise("IndexError")
      [] OTHER -> Raise("TypeError")

(* Truth value of x: bool(x), and the test of "if not x". *)
Truthy(x) ==
    CASE x.t = "dict" -> x.v # {}
      [] x.t = "list" -> x.v # <<>>
      [] x.t = "str" -> TRUE
      [] x.t = "int" -> x.v # 0
      [] x.t = "bool" -> x.v
      [] OTHER -> FALSE

-----------------------------------------------------------------------------
(* Commands *)

GetSysinfoCmd == PyDict({<<"system", PyDict({<<"get_sysinfo", EmptyDict>>})>>})

SetRelayCmd(state) ==
    PyDict({<<"system", PyDict({<<"set_relay_state", PyDict({<<"state", PyInt(state)>>})>>})>>})

(* cmd.update(dict(context=dict(child_ids=[device_id]))) *)
WithContext(cmd, device_id) ==
    PyDict({p \in cmd.v : p[1] # "context"}
           \cup {<<"context", PyDict({<<"child_ids", PyList(<<device_id>>)>>})>>})

-----------------------------------------------------------------------------
(* What the network and the device do on one exchange: the step of send()   *)
(* that fails and the exception it raises there, or "ok" and the decoded    *)
(* JSON document.                                                           *)

NetFail(at, exc) == [at |-> at, exc |-> exc, body |-> PyNone]
NetOk(body) == [at |-> "ok", exc |-> "none", body |-> body]

Child(id, state) == PyDict({<<"id", PyStr(id)>>, <<"state", PyInt(state)>>})
SysinfoReply(info) == PyDict({<<"system", PyDict({<<"get_sysinfo", info>>})>>})

Replies == {
    SysinfoReply(PyDict({<<"relay_state", PyInt(1)>>})),
    SysinfoReply(PyDict({<<"relay_state", PyInt(0)>>})),
    SysinfoReply(PyDict({<<"children", PyList(<<Child("A", 0), Child("B", 1)>>)>>})),
    SysinfoReply(PyDict({<<"relay_state", PyInt(0)>>,
                         <<"children", PyList(<<Child("A", 1)>>)>>})),
    SysinfoReply(PyDict({<<"children", PyList(<<PyDict({<<"state", PyInt(1)>>}),
                                                PyDict({<<"id", PyStr("B")>>})>>)>>})),
    SysinfoReply(PyDict({<<"children", PyList(<<>>)>>})),
    SysinfoReply(EmptyDict),
    PyDict({<<"system", PyDict({<<"set_relay_state", PyDict({<<"err_code", PyInt(0)>>})>>})>>}),
    EmptyDict,
    PyList(<<>>) }

NetOutcomes ==
    { NetFail("resolve", "socket.gaierror"),
      NetFail("connect", "ConnectionRefusedError"),
      NetFail("connect", "OSError"),
      NetFail("connect", "socket.timeout"),
      NetFail("send", "BrokenPipeError"),
      NetFail("recv", "socket.timeout"),
      NetFail("recv", "ConnectionResetError"),
      NetFail("unpack", "struct.error"),
      NetFail("loads", "JSONDecodeError") }
    \cup { NetOk(b) : b \in Replies }

(* The except clause guarding each step of send(). *)
SendHandlers(at) ==
    CASE at = "resolve" -> {"Exception"}
      [] at = "connect" -> {"OSError", "ConnectionRefusedError"}
      [] at = "send" -> {"OSError"}
      [] at = "recv" -> {"socket.timeout", "struct.error"}
      [] at = "unpack" -> {"socket.timeout", "struct.error"}
      [] OTHER -> {}

(* send(cmd, host) when the network does o. *)
Send(o) ==
    IF o.at = "ok" THEN Ret(o.body)
    ELSE IF Caught(o.exc, SendHandlers(o.at)) THEN Ret(EmptyDict)
    ELSE Raise(o.exc)

(* get_sysinfo(host) when the network does o. *)
GetSysinfo(o) ==
    LET sent == Send(o) IN
    IF IsRaise(sent) THEN sent
    ELSE
        LET a == GetItem(sent.v, PyStr("system"))
            b == IF IsRaise(a) THEN a ELSE GetItem(a.v, PyStr("get_sysinfo"))
        IN  IF ~IsRaise(b) THEN b
            ELSE IF Caught(ExcOf(b), {"TypeError", "KeyError"}) THEN Ret(EmptyDict)
            ELSE b

ChildIndex_Unshifted(plug) == plug

(* The list index of child outlet number plug. *)
ChildIndex(plug) == plug - 1

(* sysinfo['children'][plug - 1][field] *)
ChildField(sysinfo, plug, field) ==
    LET a == GetItem(sysinfo, PyStr("children"))
        b == IF IsRaise(a) THEN a ELSE GetItem(a.v, PyInt(ChildIndex(plug)))
    IN  IF IsRaise(b) THEN b ELSE GetItem(b.v, PyStr(field))

SelectState_ByShape(sysinfo, plug) ==
    IF ~IsRaise(GetItem(sysinfo, PyStr("children")))
    THEN ChildField(sysinfo, plug, "state")
    ELSE GetItem(sysinfo, PyStr("relay_state"))

(* The value get_plug_state reads for plug: the branch is on plug. *)
SelectState(sysinfo, plug) ==
    IF plug > 0 THEN ChildField(sysinfo, plug, "state")
    ELSE GetItem(sysinfo, PyStr("relay_state"))

(* get_plug_state(host, plug) when the network does o. *)
GetPlugState(o, plug) ==
    LET got == GetSysinfo(o) IN
    IF IsRaise(got) THEN got
    ELSE IF ~Truthy(got.v) THEN Ret(PyBool(FALSE))
    ELSE
        LET s == SelectState(got.v, plug) IN
        IF ~IsRaise(s) THEN Ret(PyBool(Truthy(s.v)))
        ELSE IF Caught(ExcOf(s), {"KeyError"}) THEN Ret(PyBool(FALSE))
        ELSE s

(* The part of send_to_plug before self.send, for plug > 0, when the        *)
(* network does o on the lookup: "go" with the device_id, or the early      *)
(* return of dict(), or an exception.                                       *)
LookupChild(o, plug) ==
    LET got == GetSysinfo(o) IN
    IF IsRaise(got) THEN got
    ELSE IF ~Truthy(got.v) THEN Ret(EmptyDict)
    ELSE
        LET d == ChildField(got.v, plug, "id") IN
        IF ~IsRaise(d) THEN [k |-> "go", v |-> d.v]
        ELSE IF Caught(ExcOf(d), {"KeyError"}) THEN Ret(EmptyDict)
        ELSE d

-----------------------------------------------------------------------------
(* Settings *)

ReloadKeys_NoAddress ==
    <<"plug", "lightEnabled", "lightAddress", "lightPlug",
      "otherEnabled", "otherAddress", "otherPlug">>

(* The keys of get_settings_defaults, in the order reload_settings visits them. *)
ReloadKeys ==
    <<"address", "plug", "lightEnabled", "lightAddress", "lightPlug",
      "otherEnabled", "otherAddress", "otherPlug">>

MaxSaves == 1

Settings(a, p, le, la, lp, oe, oa, opl) ==
    [address |-> a, plug |-> p,
     lightEnabled |-> le, lightAddress |-> la, lightPlug |-> lp,
     otherEnabled |-> oe, otherAddress |-> oa, otherPlug |-> opl]

(* The settings a user saves. *)
SettingsChoices ==
    { Settings("h1", 0, TRUE, "h2", 2, FALSE, "h2", 1),
      Settings("h2", 2, FALSE, "h1", 0, TRUE, "h1", 1),
      Settings("h1", 1, TRUE, "h1", 3, TRUE, "h2", 0) }

(* The version of the settings store, and the last version whose save has returned. *)
StoreVer == Len(hist) - 1
CompletedVer == IF savePc = 0 THEN StoreVer ELSE StoreVer - 1

-----------------------------------------------------------------------------
(* Operations *)

FanOutOps == {"turn_psu_on", "turn_psu_off"}
QueryOps == {"get_psu_state", "get_light_state", "get_other_state"}
SwitchOps == {"turn_light_on", "turn_light_off", "turn_other_on", "turn_other_off"}
OpNames == FanOutOps \cup QueryOps \cup SwitchOps

(* The outlet an operation addresses first. *)
FirstOutlet(name) ==
    CASE name \in {"turn_light_on", "turn_light_off", "get_light_state"} -> "light"
      [] name \in {"turn_other_on", "turn_other_off", "get_other_state"} -> "other"
      [] OTHER -> "main"

(* The state an operation passes to set_plug_state. *)
OpState(name) ==
    IF name \in {"turn_psu_on", "turn_light_on", "turn_other_on"} THEN 1 ELSE 0

OpKind_AlwaysSet(name) == "set"

(* Whether an operation queries the state or switches the relay. *)
OpKind(name) == IF name \in QueryOps THEN "get" ELSE "set"

AddrKey(outlet) ==
    CASE outlet = "light" -> "lightAddress"
      [] outlet = "other" -> "otherAddress"
      [] OTHER -> "address"

PlugKey(outlet) ==
    CASE outlet = "light" -> "lightPlug"
      [] outlet = "other" -> "otherPlug"
      [] OTHER -> "plug"

EnabledKey(outlet) == IF outlet = "light" THEN "lightEnabled" ELSE "otherEnabled"

OutletEnabled_Always(cfg, outlet) == TRUE

(* The test turn_psu_on / turn_psu_off make before an auxiliary outlet. *)
OutletEnabled(cfg, outlet) == cfg[EnabledKey(outlet)]

(* The locals of a per-outlet call as it starts; a version of -1 is one not read yet. *)
NewCall(outlet, name, enVer) ==
    [outlet |-> outlet, kind |-> OpKind(name), state |-> OpState(name),
     host |-> "", plug |-> 0, deviceId |-> PyNone,
     hostVer |-> -1, plugVer |-> -1, enVer |-> enVer]
NoCall == NewCall("none", "none", -1)
NoXchg == [net |-> NetFail("none", "none"), sent |-> Ret(PyNone)]
NoResult == [k |-> "none", v |-> PyNone]
Idle == [name |-> "none", pc |-> "idle", start |-> 0]

InitPlugin ==
    /\ settings \in SettingsChoices
    /\ hist = <<settings>>
    /\ config = settings
    /\ cfgVer = [key \in DOMAIN settings |-> 0]
    /\ savePc = 0
    /\ op = Idle
    /\ call = NoCall
    /\ trace = <<>>
    /\ xchg = NoXchg
    /\ result = NoResult

(* No text is in the codec. *)
NoCodec ==
    [pc |-> "none", text |-> <<>>, key |-> 0, rest |-> <<>>, out |-> <<>>,
     frame |-> Ret(PyNone), back |-> <<>>]

(* send() not running, no socket made yet. *)
NoTransport ==
    [pc |-> "idle", xid |-> 0, stream |-> <<>>, after |-> "closed",
     deadline |-> FALSE, unread |-> <<>>, data |-> <<>>, len |-> -1, socks |-> <<>>,
     decoded |-> Ret(PyNone), ret |-> Ret(PyNone)]

Init ==
    /\ InitPlugin
    /\ cdc = NoCodec
    /\ tp = NoTransport

opVars == <<op, call, trace, xchg, result>>
cfgVars == <<settings, hist, config, cfgVer, savePc>>

(* on_settings_save: SettingsPlugin.on_settings_save stores the data. *)
SaveSettings(new) ==
    /\ savePc = 0
    /\ Len(hist) <= MaxSaves
    /\ settings' = new
    /\ hist' = Append(hist, new)
    /\ savePc' = 1
    /\ UNCHANGED <<config, cfgVer>>
    /\ UNCHANGED opVars

(* reload_settings: one turn of its loop, self.config[k] = the stored value. *)
ReloadKey ==
    /\ savePc >= 1
    /\ savePc <= Len(ReloadKeys)
    /\ LET key == ReloadKeys[savePc] IN
        /\ config' = [config EXCEPT ![key] = settings[key]]
        /\ cfgVer' = [cfgVer EXCEPT ![key] = StoreVer]
    /\ savePc' = IF savePc = Len(ReloadKeys) THEN 0 ELSE savePc + 1
    /\ UNCHANGED <<settings, hist>>
    /\ UNCHANGED opVars

(* The host calls an operation. *)
Start(name) ==
    /\ op.name = "none"
    /\ op' = [name |-> name, pc |-> "readAddr", start |-> CompletedVer]
    /\ call' = NewCall(FirstOutlet(name), name, -1)
    /\ trace' = <<>>
    /\ xchg' = NoXchg
    /\ result' = NoResult
    /\ UNCHANGED cfgVars

(* self.config['...Address'], the first argument of the per-outlet call. *)
ReadAddr ==
    /\ op.pc = "readAddr"
    /\ call' = [call EXCEPT !.host = config[AddrKey(call.outlet)],
                            !.hostVer = cfgVer[AddrKey(call.outlet)]]
    /\ op' = [op EXCEPT !.pc = "readPlug"]
    /\ UNCHANGED <<trace, xchg, result>>
    /\ UNCHANGED cfgVars

(* self.config['...Plug'], the second argument; then the callee's branch on plug. *)
ReadPlug ==
    /\ op.pc = "readPlug"
    /\ LET plug == config[PlugKey(call.outlet)] IN
        /\ call' = [call EXCEPT !.plug = plug, !.plugVer = cfgVer[PlugKey(call.outlet)]]
        /\ op' = [op EXCEPT !.pc = IF call.kind = "get" THEN "query"
                                   ELSE IF plug > 0 THEN "lookup" ELSE "send"]
    /\ UNCHANGED <<trace, xchg, result>>
    /\ UNCHANGED cfgVars

(* One send() invocation: the outlet it is for, the host and command handed *)
(* to send, and the plug index of the call.                                 *)
Sent(cmd) ==
    [outlet |-> call.outlet, host |-> call.host, cmd |-> cmd, plug |-> call.plug]

(* Where an operation goes on when a per-outlet call has returned. *)
AfterCall ==
    IF op.name \in FanOutOps /\ call.outlet = "main" THEN "chkLight"
    ELSE IF op.name \in FanOutOps /\ call.outlet = "light" THEN "chkOther"
    ELSE "done"

(* get_plug_state: the exchange and the interpretation of the system info. *)
Query(o) ==
    /\ op.pc = "query"
    /\ trace' = Append(trace, Sent(GetSysinfoCmd))
    /\ xchg' = [net |-> o, sent |-> Send(o)]
    /\ result' = GetPlugState(o, call.plug)
    /\ op' = [op EXCEPT !.pc = "done"]
    /\ UNCHANGED call
    /\ UNCHANGED cfgVars

(* send_to_plug with plug > 0: the lookup of the child's id. *)
Lookup(o) ==
    /\ op.pc = "lookup"
    /\ trace' = Append(trace, Sent(GetSysinfoCmd))
    /\ xchg' = [net |-> o, sent |-> Send(o)]
    /\ LET r == LookupChild(o, call.plug) IN
        CASE r.k = "go" ->
                /\ call' = [call EXCEPT !.deviceId = r.v]
                /\ op' = [op EXCEPT !.pc = "send"]
                /\ UNCHANGED result
          [] r.k = "ret" ->
                /\ op' = [op EXCEPT !.pc = AfterCall]
                /\ result' = IF AfterCall = "done" THEN Ret(PyNone) ELSE result
                /\ UNCHANGED call
          [] OTHER ->
                /\ op' = [op EXCEPT !.pc = "done"]
                /\ result' = r
                /\ UNCHANGED call
    /\ UNCHANGED cfgVars

PlugCmd_AlwaysScoped(state, plug, deviceId) == WithContext(SetRelayCmd(state), deviceId)

(* The command send_to_plug hands to send. *)
PlugCmd(state, plug, deviceId) ==
    IF plug > 0 THEN WithContext(SetRelayCmd(state), deviceId) ELSE SetRelayCmd(state)

(* send_to_plug: self.send(cmd, host). *)
SendCmd(o) ==
    /\ op.pc = "send"
    /\ trace' = Append(trace, Sent(PlugCmd(call.state, call.plug, call.deviceId)))
    /\ xchg' = [net |-> o, sent |-> Send(o)]
    /\ LET r == Send(o) IN
        IF IsRaise(r)
        THEN /\ op' = [op EXCEPT !.pc = "done"]
             /\ result' = r
        ELSE /\ op' = [op EXCEPT !.pc = AfterCall]
             /\ result' = IF AfterCall = "done" THEN Ret(PyNone) ELSE result
    /\ UNCHANGED call
    /\ UNCHANGED cfgVars

(* turn_psu_on / turn_psu_off: if self.config['lightEnabled'] / ['otherEnabled']. *)
CheckEnabled(outlet) ==
    /\ op.pc = (IF outlet = "light" THEN "chkLight" ELSE "chkOther")
    /\ IF OutletEnabled(config, outlet)
       THEN /\ call' = NewCall(outlet, op.name, cfgVer[EnabledKey(outlet)])
            /\ op' = [op EXCEPT !.pc = "readAddr"]
            /\ UNCHANGED result
       ELSE /\ op' = [op EXCEPT !.pc = IF outlet = "light" THEN "chkOther" ELSE "done"]
            /\ result' = IF outlet = "light" THEN result ELSE Ret(PyNone)
            /\ UNCHANGED call
    /\ UNCHANGED <<trace, xchg>>
    /\ UNCHANGED cfgVars

(* The operation has returned to the host, or its exception has reached it. *)
Finish ==
    /\ op.pc = "done"
    /\ op' = Idle
    /\ call' = NoCall
    /\ trace' = <<>>
    /\ xchg' = NoXchg
    /\ result' = NoResult
    /\ UNCHANGED cfgVars

(* One step of the running operation, the network doing one of outcomes. *)
OpStep(outcomes) ==
    \/ \E name \in OpNames : Start(name)
    \/ ReadAddr
    \/ ReadPlug
    \/ \E o \in outcomes : Query(o)
    \/ \E o \in outcomes : Lookup(o)
    \/ \E o \in outcomes : SendCmd(o)
    \/ \E outlet \in {"light", "other"} : CheckEnabled(outlet)
    \/ Finish

(* on_settings_save run to its end while no operation is running. *)
OnSettingsSave(new) ==
    /\ savePc = 0
    /\ op.name = "none"
    /\ Len(hist) <= MaxSaves
    /\ settings' = new
    /\ hist' = Append(hist, new)
    /\ config' = [key \in DOMAIN config |->
                    IF \E i \in 1..Len(ReloadKeys) : ReloadKeys[i] = key
                    THEN new[key] ELSE config[key]]
    /\ cfgVer' = [key \in DOMAIN cfgVer |->
                    IF \E i \in 1..Len(ReloadKeys) : ReloadKeys[i] = key
                    THEN Len(hist) ELSE cfgVer[key]]
    /\ UNCHANGED savePc
    /\ UNCHANGED opVars

(* The handlers one after the other, against every behaviour of the network. *)
Next ==
    /\ \/ \E new \in SettingsChoices : OnSettingsSave(new)
       \/ OpStep(NetOutcomes)
    /\ UNCHANGED <<cdc, tp>>

Spec == Init /\ [][Next]_vars

(* The network behaviours that steer a per-outlet call down each of its     *)
(* paths: early return, escaping exception, child found or not.             *)
ReloadNet ==
    { NetFail("resolve", "socket.gaierror"),
      NetFail("recv", "ConnectionResetError"),
      NetOk(SysinfoReply(PyDict({<<"children", PyList(<<Child("A", 0), Child("B", 1)>>)>>}))) }

(* Operations running while on_settings_save runs in another thread. *)
NextReload ==
    /\ \/ \E new \in SettingsChoices : SaveSettings(new)
       \/ ReloadKey
       \/ OpStep(ReloadNet)
    /\ UNCHANGED <<cdc, tp>>

SpecReload == Init /\ [][NextReload]_vars

-----------------------------------------------------------------------------
(* The codec: encrypt and decrypt. A str is the sequence of its code        *)
(* points, a bytes object [t |-> "bytes"] with the sequence of its bytes.   *)

PyBytes(bs) == [t |-> "bytes", v |-> bs]

RECURSIVE Xor(_, _)
(* a ^ b on non-negative integers. *)
Xor(a, b) ==
    IF a = 0 THEN b
    ELSE IF b = 0 THEN a
    ELSE (((a % 2) + (b % 2)) % 2) + 2 * Xor(a \div 2, b \div 2)

(* key = 171, in encrypt and in decrypt. *)
EncryptKey == 171
DecryptKey == 171

(* bytes([n]): one byte, ValueError outside range(0, 256). *)
OneByte(n) ==
    IF n >= 0 /\ n < 256 THEN Ret(PyBytes(<<n>>)) ELSE Raise("ValueError")

(* string.encode('latin-1'): code point n is byte n, none above 255. *)
Latin1Encode(string) ==
    IF \A i \in 1..Len(string) : string[i] < 256
    THEN Ret(PyBytes([i \in 1..Len(string) |-> string[i]]))
    ELSE Raise("UnicodeEncodeError")

(* result.decode('latin-1'): byte n is code point n. *)
Latin1Decode(bs) == [i \in 1..Len(bs) |-> bs[i]]

(* encrypt: key = a, the byte put out. *)
EncryptNextKey(inByte, outByte) == outByte

DecryptNextKey_Output(inByte, outByte) == outByte

(* decrypt: key = i, the byte taken in. *)
DecryptNextKey(inByte, outByte) == inByte

MaxLen == 3

(* The bytes the texts are made of: NUL, 1, "{", the key, 255. *)
ByteSamples == {0, 1, 123, 171, 255}

RECURSIVE SeqsUpTo(_, _)
SeqsUpTo(S, n) ==
    IF n = 0 THEN {<<>>}
    ELSE LET shorter == SeqsUpTo(S, n - 1)
         IN  shorter \cup {Append(q, x) : q \in shorter, x \in S}

(* Texts at and around the longest length one byte can hold. *)
LongTexts == {[i \in 1..n |-> 65] : n \in {255, 256}}

CodecInputs == SeqsUpTo(ByteSamples, MaxLen) \cup LongTexts

InitCodec ==
    /\ InitPlugin
    /\ settings = Settings("h1", 0, TRUE, "h2", 2, FALSE, "h2", 1)
    /\ cdc \in {[NoCodec EXCEPT !.pc = "text", !.text = x] : x \in CodecInputs}
    /\ tp = NoTransport

(* encrypt(string) up to its loop: the length byte is made first, then the  *)
(* text is encoded.                                                         *)
EncryptStart ==
    /\ cdc.pc = "text"
    /\ LET lenByte == OneByte(Len(cdc.text))
           enc == Latin1Encode(cdc.text)
       IN  IF IsRaise(lenByte)
           THEN cdc' = [cdc EXCEPT !.pc = "raised", !.frame = lenByte]
           ELSE IF IsRaise(enc)
           THEN cdc' = [cdc EXCEPT !.pc = "raised", !.frame = enc]
           ELSE cdc' = [cdc EXCEPT !.pc = "encrypting", !.key = EncryptKey,
                                   !.rest = enc.v.v,
                                   !.out = <<0, 0, 0>> \o lenByte.v.v]
    /\ UNCHANGED <<cfgVars, opVars, tp>>

(* One turn of the loop of encrypt. *)
EncryptStep ==
    /\ cdc.pc = "encrypting"
    /\ cdc.rest # <<>>
    /\ LET a == Xor(cdc.key, Head(cdc.rest)) IN
        cdc' = [cdc EXCEPT !.key = EncryptNextKey(Head(cdc.rest), a),
                           !.out = Append(cdc.out, a),
                           !.rest = Tail(cdc.rest)]
    /\ UNCHANGED <<cfgVars, opVars, tp>>

(* encrypt: return result. *)
EncryptReturn ==
    /\ cdc.pc = "encrypting"
    /\ cdc.rest = <<>>
    /\ cdc' = [cdc EXCEPT !.pc = "encrypted", !.frame = Ret(PyBytes(cdc.out)),
                          !.out = <<>>]
    /\ UNCHANGED <<cfgVars, opVars, tp>>

(* decrypt(frame[4:]) up to its loop. *)
DecryptStart ==
    /\ cdc.pc = "encrypted"
    /\ cdc' = [cdc EXCEPT !.pc = "decrypting", !.key = DecryptKey,
                          !.rest = SubSeq(cdc.frame.v.v, 5, Len(cdc.frame.v.v)),
                          !.out = <<>>]
    /\ UNCHANGED <<cfgVars, opVars, tp>>

(* One turn of the loop of decrypt. *)
DecryptStep ==
    /\ cdc.pc = "decrypting"
    /\ cdc.rest # <<>>
    /\ LET a == Xor(cdc.key, Head(cdc.rest)) IN
        cdc' = [cdc EXCEPT !.key = DecryptNextKey(Head(cdc.rest), a),
                           !.out = Append(cdc.out, a),
                           !.rest = Tail(cdc.rest)]
    /\ UNCHANGED <<cfgVars, opVars, tp>>

(* decrypt: return result.decode('latin-1'). *)
DecryptReturn ==
    /\ cdc.pc = "decrypting"
    /\ cdc.rest = <<>>
    /\ cdc' = [cdc EXCEPT !.pc = "decrypted", !.back = Latin1Decode(cdc.out),
                          !.out = <<>>]
    /\ UNCHANGED <<cfgVars, opVars, tp>>

NextCodec ==
    \/ EncryptStart
    \/ EncryptStep
    \/ EncryptReturn
    \/ DecryptStart
    \/ DecryptStep
    \/ DecryptReturn

SpecCodec == InitCodec /\ [][NextCodec]_vars

-----------------------------------------------------------------------------
(* send() against a device, byte by byte: the sockets it makes, what it     *)
(* reads from them, what it hands to decrypt.                               *)

(* port = 9999 *)
Port == 9999

(* s.recv(1024) *)
RecvSize == 1024

(* The number of exchanges followed. *)
MaxExchanges == 2

Min(a, b) == IF a < b THEN a ELSE b

(* bs[from:to] *)
Slice(bs, from, to) == SubSeq(bs, from + 1, Min(to, Len(bs)))

(* unpack('>I', bs): four bytes, big-endian; struct.error for any other     *)
(* number of bytes.                                                         *)
Unpack(bs) ==
    IF Len(bs) # 4 THEN Raise("struct.error")
    ELSE Ret(PyInt(((bs[1] * 256 + bs[2]) * 256 + bs[3]) * 256 + bs[4]))

(* The text {} as the codec puts it on the wire. *)
EmptyObject == <<208, 173>>

(* json.loads(self.decrypt(bs)) for the payloads of DeviceStreams: {} is a  *)
(* document; nothing, half of it, and {} with a byte after it are not.      *)
JsonLoadsDecrypt(bs) ==
    IF bs = EmptyObject THEN Ret(EmptyDict) ELSE Raise("JSONDecodeError")

(* What a device may have sent when it stops sending: a frame of length 0,  *)
(* the frame of {} and one byte after it, a prefix announcing 258 bytes and *)
(* two bytes; each cut off at any point.                                    *)
FullStreams ==
    { <<0, 0, 0, 0>>,
      <<0, 0, 0, 2>> \o EmptyObject \o <<1>>,
      <<0, 0, 1, 2>> \o EmptyObject }
DeviceStreams == UNION {{SubSeq(f, 1, k) : k \in 0..Len(f)} : f \in FullStreams}

(* What the device does after its last byte: keep the connection and say    *)
(* nothing, close it, reset it.                                             *)
Afters == {"silent", "closed", "reset"}

(* socket.socket(socket.AF_INET, socket.SOCK_STREAM), made by exchange xid. *)
FreshSocket(xid) ==
    [xid |-> xid, port |-> 0, connects |-> 0, connected |-> FALSE,
     frames |-> 0, written |-> FALSE, closed |-> FALSE, users |-> {}]

NewSocket_Reuse(socks, xid) ==
    IF socks = <<>> THEN <<FreshSocket(xid)>> ELSE socks

(* s = socket.socket(...): every send() makes its own socket. *)
NewSocket(socks, xid) == Append(socks, FreshSocket(xid))

(* The socket s of the running send(). *)
CurSock == tp.socks[Len(tp.socks)]
OnSock(t, sock) == [t EXCEPT !.socks[Len(t.socks)] = sock]

(* send() is left with ret. Its local s goes out of scope unclosed unless   *)
(* s.close() ran: the implementation may finalize the socket at once (gc)   *)
(* or leave it open.                                                        *)
Leave(t, pc, ret, gc) ==
    [t EXCEPT !.pc = pc, !.ret = ret,
              !.socks = IF gc THEN [@ EXCEPT ![Len(@)].closed = TRUE] ELSE @]

(* exc is raised at step at of send(): the except clause of that step       *)
(* returns the empty result, anything else leaves send().                   *)
Fail(t, at, exc, gc) ==
    IF Caught(exc, SendHandlers(at))
    THEN Leave(t, "returned", Ret(EmptyDict), gc)
    ELSE Leave(t, "raised", Raise(exc), FALSE)

(* s.recv(1024): some of the unread bytes, at least one and at most 1024;   *)
(* with none unread, b"" from a closed connection, an error from a reset    *)
(* one, socket.timeout from a silent one if the socket has a timeout, and   *)
(* no return at all if it has none.                                         *)
RecvOutcomes(t) ==
    IF t.unread # <<>>
    THEN {Ret(PyBytes(SubSeq(t.unread, 1, n))) : n \in 1..Min(RecvSize, Len(t.unread))}
    ELSE CASE t.after = "closed" -> {Ret(PyBytes(<<>>))}
           [] t.after = "reset" -> {Raise("ConnectionResetError")}
           [] t.after = "silent" ->
                IF t.deadline THEN {Raise("socket.timeout")} ELSE {}

(* t after recv returned chunk. *)
Received(t, chunk) ==
    [t EXCEPT !.data = @ \o chunk,
              !.unread = SubSeq(@, Len(chunk) + 1, Len(@))]

InitFrame ==
    /\ InitPlugin
    /\ settings = Settings("h1", 0, TRUE, "h2", 2, FALSE, "h2", 1)
    /\ cdc = NoCodec
    /\ tp = NoTransport

(* send(cmd, host) is called: result = dict(). The device and the socket    *)
(* module's default timeout are what they are for this call.                *)
StartExchange ==
    /\ tp.pc \in {"idle", "returned", "raised"}
    /\ tp.xid < MaxExchanges
    /\ \E stream \in DeviceStreams, after \in Afters, deadline \in BOOLEAN :
        /\ deadline => after = "silent"
        /\ tp' = [NoTransport EXCEPT !.pc = "resolve", !.xid = tp.xid + 1,
                                     !.stream = stream, !.unread = stream,
                                     !.after = after, !.deadline = deadline,
                                     !.socks = tp.socks]
    /\ UNCHANGED <<cfgVars, opVars, cdc>>

(* host = socket.gethostbyname(host) *)
Resolve ==
    /\ tp.pc = "resolve"
    /\ \E o \in {"ok", "socket.gaierror"} :
        tp' = IF o = "ok" THEN [tp EXCEPT !.pc = "socket"]
              ELSE Fail(tp, "resolve", o, FALSE)
    /\ UNCHANGED <<cfgVars, opVars, cdc>>

(* s = socket.socket(socket.AF_INET, socket.SOCK_STREAM) *)
MakeSocket ==
    /\ tp.pc = "socket"
    /\ tp' = [tp EXCEPT !.pc = "connect", !.socks = NewSocket(@, tp.xid)]
    /\ UNCHANGED <<cfgVars, opVars, cdc>>

(* s.connect((host, port)) *)
Connect ==
    /\ tp.pc = "connect"
    /\ \E o \in {"ok", "ConnectionRefusedError", "socket.timeout"}, gc \in BOOLEAN :
        LET sock == [CurSock EXCEPT !.port = Port, !.connects = @ + 1,
                                    !.connected = (o = "ok"),
                                    !.users = @ \cup {tp.xid}]
        IN  tp' = IF o = "ok" THEN [OnSock(tp, sock) EXCEPT !.pc = "send"]
                  ELSE Fail(OnSock(tp, sock), "connect", o, gc)
    /\ UNCHANGED <<cfgVars, opVars, cdc>>

(* s.send(self.encrypt(cmd_json)) *)
SendFrame ==
    /\ tp.pc = "send"
    /\ \E o \in {"ok", "BrokenPipeError"}, gc \in BOOLEAN :
        LET sock == [CurSock EXCEPT !.frames = @ + 1, !.written = (o = "ok"),
                                    !.users = @ \cup {tp.xid}]
        IN  tp' = IF o = "ok" THEN [OnSock(tp, sock) EXCEPT !.pc = "recv"]
                  ELSE Fail(OnSock(tp, sock), "send", o, gc)
    /\ UNCHANGED <<cfgVars, opVars, cdc>>

(* data = s.recv(1024) *)
Recv ==
    /\ tp.pc = "recv"
    /\ \E r \in RecvOutcomes(tp), gc \in BOOLEAN :
        tp' = IF IsRaise(r) THEN Fail(tp, "recv", ExcOf(r), gc)
              ELSE [Received(tp, r.v.v) EXCEPT !.pc = "unpack"]
    /\ UNCHANGED <<cfgVars, opVars, cdc>>

(* len_data = unpack('>I', data[0:4]) *)
UnpackLen ==
    /\ tp.pc = "unpack"
    /\ \E gc \in BOOLEAN :
        LET u == Unpack(Slice(tp.data, 0, 4))
        IN  tp' = IF IsRaise(u) THEN Fail(tp, "unpack", ExcOf(u), gc)
                  ELSE [tp EXCEPT !.pc = "loop", !.len = u.v.v]
    /\ UNCHANGED <<cfgVars, opVars, cdc>>

(* while (len(data) - 4) < len_data[0]: data = data + s.recv(1024) *)
RecvMore ==
    /\ tp.pc = "loop"
    /\ Len(tp.data) - 4 < tp.len
    /\ \E r \in RecvOutcomes(tp), gc \in BOOLEAN :
        tp' = IF IsRaise(r) THEN Fail(tp, "recv", ExcOf(r), gc)
              ELSE Received(tp, r.v.v)
    /\ UNCHANGED <<cfgVars, opVars, cdc>>

(* The loop ends; s.close() *)
Close ==
    /\ tp.pc = "loop"
    /\ ~(Len(tp.data) - 4 < tp.len)
    /\ tp' = [OnSock(tp, [CurSock EXCEPT !.closed = TRUE]) EXCEPT !.pc = "loads"]
    /\ UNCHANGED <<cfgVars, opVars, cdc>>

(* result = json.loads(self.decrypt(data[4:])); return result *)
Loads ==
    /\ tp.pc = "loads"
    /\ LET bs == Slice(tp.data, 4, Len(tp.data))
           r == JsonLoadsDecrypt(bs)
       IN  tp' = [Leave(tp, IF IsRaise(r) THEN "raised" ELSE "returned", r, FALSE)
                     EXCEPT !.decoded = Ret(PyBytes(bs))]
    /\ UNCHANGED <<cfgVars, opVars, cdc>>

(* The steps of a send() that is running. *)
ExchangeStep ==
    \/ Resolve
    \/ MakeSocket
    \/ Connect
    \/ SendFrame
    \/ Recv
    \/ UnpackLen
    \/ RecvMore
    \/ Close
    \/ Loads

NextFrame ==
    \/ StartExchange
    \/ ExchangeStep

(* The thread in send() keeps running. *)
SpecFrame == InitFrame /\ [][NextFrame]_vars /\ WF_vars(ExchangeStep)

-----------------------------------------------------------------------------
(* Reading a reply the way the protocol describes it, for the properties:   *)
(* a field is there or it is not, no exceptions.                            *)

Has(d, key) == d.t = "dict" /\ \E p \in d.v : p[1] = key
Field(d, key) == (CHOOSE p \in d.v : p[1] = key)[2]

(* The system.get_sysinfo object of the reply of exchange o, {} without one. *)
InfoOf(o) ==
    IF o.at = "ok" /\ Has(o.body, "system") /\ Has(Field(o.body, "system"), "get_sysinfo")
    THEN Field(Field(o.body, "system"), "get_sysinfo")
    ELSE EmptyDict

HasChildren(info) == Has(info, "children") /\ Field(info, "children").t = "list"
HasChild(info, plug) ==
    HasChildren(info) /\ plug >= 1 /\ plug <= Len(Field(info, "children").v)
ChildOf(info, plug) == Field(info, "children").v[plug]

(* The system info holds the state / the id that plug selects. *)
HasState(info, plug) ==
    IF plug = 0 THEN Has(info, "relay_state")
    ELSE HasChild(info, plug) /\ Has(ChildOf(info, plug), "state")
StateOf(info, plug) ==
    IF plug = 0 THEN Field(info, "relay_state") ELSE Field(ChildOf(info, plug), "state")
HasId(info, plug) == HasChild(info, plug) /\ Has(ChildOf(info, plug), "id")

IsSet(e) == Has(Field(e.cmd, "system"), "set_relay_state")
IsGet(e) == e.cmd = GetSysinfoCmd
ChildIds(e) ==
    IF Has(e.cmd, "context") THEN Field(Field(e.cmd, "context"), "child_ids") ELSE PyNone

MainSets == {i \in 1..Len(trace) : trace[i].outlet = "main" /\ IsSet(trace[i])}
Attempted(outlet) == \E i \in 1..Len(trace) : trace[i].outlet = outlet
Rank(outlet) == CASE outlet = "main" -> 1 [] outlet = "light" -> 2 [] OTHER -> 3

Done == op.pc = "done"
LastWasLookup == trace # <<>> /\ IsGet(trace[Len(trace)])
PyFalse == Ret(PyBool(FALSE))
PyTrue == Ret(PyBool(TRUE))

-----------------------------------------------------------------------------

(* The length a stream announces, and whether the stream holds the whole    *)
(* frame it announces.                                                      *)
Announced(stream) == ((stream[1] * 256 + stream[2]) * 256 + stream[3]) * 256 + stream[4]
WholeFrame(stream) == Len(stream) >= 4 /\ Len(stream) - 4 >= Announced(stream)

(* The running send() wrote its frame: the device's stream is its reply. *)
Replied == tp.socks # <<>> /\ CurSock.xid = tp.xid /\ CurSock.written

(* send() waits in its loop for payload the device will not send. *)
ShortReply ==
    /\ tp.pc = "loop"
    /\ tp.unread = <<>>
    /\ Len(tp.data) - 4 < tp.len
    /\ tp.after \in {"silent", "closed"}

(* C1: set_plug_state with plug > 0 sends its set_relay_state command only  *)
(* after a get_sysinfo to the same host, and only with context.child_ids =  *)
(* [the id of children[plug-1] in that lookup's reply]; a lookup that gives *)
(* no system info or no id is never followed by the command.                *)
C1_ChildScoping ==
    /\ (op.pc = "send" /\ call.plug > 0) =>
          /\ LastWasLookup
          /\ trace[Len(trace)].host = call.host
          /\ trace[Len(trace)].outlet = call.outlet
          /\ HasId(InfoOf(xchg.net), call.plug)
          /\ call.deviceId = Field(ChildOf(InfoOf(xchg.net), call.plug), "id")
    /\ \A i \in 1..Len(trace) :
          (IsSet(trace[i]) /\ trace[i].plug > 0) =>
              /\ i > 1
              /\ IsGet(trace[i - 1])
              /\ trace[i - 1].host = trace[i].host
              /\ trace[i - 1].outlet = trace[i].outlet
              /\ ChildIds(trace[i]).t = "list"
              /\ Len(ChildIds(trace[i]).v) = 1
              /\ (i = Len(trace) /\ trace[i].outlet = call.outlet) =>
                    ChildIds(trace[i]) = PyList(<<call.deviceId>>)
    /\ \A i \in 1..Len(trace) :
          (IsSet(trace[i]) /\ trace[i].plug = 0) => ChildIds(trace[i]) = PyNone

C1_Witness ==
    /\ trace # <<>>
    /\ IsSet(trace[Len(trace)])
    /\ trace[Len(trace)].plug = 2
    /\ ChildIds(trace[Len(trace)]) = PyList(<<PyStr("B")>>)

(* C2: get_plug_state answers True exactly when the value plug selects is 1: *)
(* relay_state for plug 0, children[plug-1].state for plug >= 1, whatever    *)
(* else the system info holds.                                              *)
C2_StateByPlugIndex ==
    (op.name \in QueryOps /\ Done /\ xchg.net.at = "ok") =>
        (result = PyTrue <=>
            /\ HasState(InfoOf(xchg.net), call.plug)
            /\ StateOf(InfoOf(xchg.net), call.plug) = PyInt(1))

C2_Witness ==
    /\ op.name \in QueryOps /\ Done /\ call.plug = 0
    /\ result = PyFalse
    /\ HasState(InfoOf(xchg.net), 1)
    /\ HasState(InfoOf(xchg.net), 0)
    /\ StateOf(InfoOf(xchg.net), 1) = PyInt(1)
    /\ StateOf(InfoOf(xchg.net), 0) = PyInt(0)

(* C3: with a plug index beyond the children the device reports,            *)
(* get_plug_state returns False, set_plug_state sends no command, and no    *)
(* exception reaches the caller.                                            *)
C3_OutOfRangeIndex ==
    (/\ Done /\ LastWasLookup
     /\ trace[Len(trace)].outlet = call.outlet
     /\ HasChildren(InfoOf(xchg.net))
     /\ call.plug > Len(Field(InfoOf(xchg.net), "children").v)) =>
        /\ ~IsRaise(result)
        /\ call.kind = "get" => result = PyFalse

(* C4: get_plug_state returns False, and no exception reaches the caller,   *)
(* when the exchange failed, when the reply has no system.get_sysinfo, and  *)
(* when the system info lacks the state that plug selects.                  *)
C4_QueryFailsToFalse ==
    (/\ op.name \in QueryOps /\ Done
     /\ \/ xchg.net.at # "ok"
        \/ InfoOf(xchg.net) = EmptyDict
        \/ ~HasState(InfoOf(xchg.net), call.plug)) =>
        result = PyFalse

(* C5: turn_psu_on / turn_psu_off attempt every enabled auxiliary outlet    *)
(* whatever happened on the outlets before it, and send the main outlet's   *)
(* command once.                                                            *)
C5_FanOutIndependent ==
    (op.name \in FanOutOps /\ Done) =>
        /\ Cardinality(MainSets) <= 1
        /\ config.plug = 0 => Cardinality(MainSets) = 1
        /\ \A outlet \in {"light", "other"} :
              OutletEnabled(config, outlet) => Attempted(outlet)

(* C6: turn_psu_on / turn_psu_off address the main outlet first and always, *)
(* then the light outlet, then the other outlet, and never an auxiliary     *)
(* outlet whose enabled flag is false.                                      *)
C6_FanOutOrder ==
    op.name \in FanOutOps =>
        /\ trace # <<>> => trace[1].outlet = "main"
        /\ op.pc \in {"chkLight", "chkOther", "done"} => trace # <<>>
        /\ \A i, j \in 1..Len(trace) :
              i < j => Rank(trace[i].outlet) <= Rank(trace[j].outlet)
        /\ \A i \in 1..Len(trace) :
              trace[i].outlet # "main" => config[EnabledKey(trace[i].outlet)]

C6_Witness ==
    /\ op.name \in FanOutOps /\ Done
    /\ ~config.lightEnabled
    /\ config.otherEnabled
    /\ Attempted("main") /\ Attempted("other") /\ ~Attempted("light")

(* C7: what get_light_state / get_other_state return is False when the      *)
(* outlet's enabled flag is false, whatever the device reports.             *)
C7_DisabledReadsFalse ==
    (/\ op.name \in {"get_light_state", "get_other_state"} /\ Done
     /\ ~config[EnabledKey(call.outlet)]
     /\ ~IsRaise(result)) =>
        result = PyFalse

(* C8: once on_settings_save has returned, self.config holds the saved      *)
(* values, so an operation started afterwards reads, and contacts, only     *)
(* addresses and plug indexes of that save or a later one.                  *)
C8_NoStaleConfig ==
    /\ \A key \in DOMAIN config :
          /\ cfgVer[key] >= CompletedVer
          /\ config[key] = hist[cfgVer[key] + 1][key]
    /\ op.start <= CompletedVer
    /\ call.hostVer >= 0 =>
          /\ call.hostVer >= op.start
          /\ call.host = hist[call.hostVer + 1][AddrKey(call.outlet)]
    /\ call.plugVer >= 0 =>
          /\ call.plugVer >= op.start
          /\ call.plug = hist[call.plugVer + 1][PlugKey(call.outlet)]
    /\ call.enVer >= 0 =>
          /\ call.enVer >= op.start
          /\ hist[call.enVer + 1][EnabledKey(call.outlet)]
    /\ \A i \in 1..Len(trace) :
          trace[i].outlet = call.outlet =>
              /\ call.hostVer >= 0 /\ call.plugVer >= 0
              /\ trace[i].host = call.host
              /\ trace[i].plug = call.plug

C8_Witness ==
    /\ op.start = 1
    /\ trace # <<>>
    /\ trace[1].host = hist[2].address
    /\ hist[2].address # hist[1].address

(* C9: the address, the plug index and the enabled flag an operation uses   *)
(* for an outlet come from one version of the settings: some version holds  *)
(* all of them.                                                             *)
C9_OneVersionPerCall ==
    (call.hostVer >= 0 /\ call.plugVer >= 0) =>
        \E n \in 1..Len(hist) :
            /\ call.host = hist[n][AddrKey(call.outlet)]
            /\ call.plug = hist[n][PlugKey(call.outlet)]
            /\ call.enVer >= 0 => hist[n][EnabledKey(call.outlet)]

(* C10: whatever step of the exchange fails, send returns an empty result   *)
(* and raises nothing.                                                      *)
C10_SendNeverRaises ==
    xchg.net.at \notin {"ok", "none"} => xchg.sent = Ret(EmptyDict)

(* C16: a per-outlet call makes at most two exchanges, one after the other:  *)
(* a state query exactly one get_sysinfo; on/off with plug 0 exactly one    *)
(* set_relay_state without context and without lookup; on/off with plug >=  *)
(* 1 one get_sysinfo, then at most one set_relay_state.                     *)
C16_AtMostTwoExchanges ==
    /\ \A outlet \in {"main", "light", "other"} :
          Cardinality({i \in 1..Len(trace) : trace[i].outlet = outlet}) <= 2
    /\ \A i \in 1..Len(trace) :
          /\ (i > 1 /\ trace[i - 1].outlet = trace[i].outlet) =>
                /\ IsGet(trace[i - 1]) /\ IsSet(trace[i])
                /\ trace[i].plug >= 1
          /\ (IsSet(trace[i]) /\ trace[i].plug = 0) =>
                /\ ChildIds(trace[i]) = PyNone
                /\ i > 1 => trace[i - 1].outlet # trace[i].outlet
          /\ (IsSet(trace[i]) /\ trace[i].plug >= 1) =>
                /\ i > 1
                /\ trace[i - 1].outlet = trace[i].outlet
          /\ (IsGet(trace[i]) /\ op.name \notin QueryOps) => trace[i].plug >= 1
    /\ (Done /\ op.name \in QueryOps) => (Len(trace) = 1 /\ IsGet(trace[1]))
    /\ (Done /\ op.name \in SwitchOps /\ call.plug = 0) =>
          (Len(trace) = 1 /\ IsSet(trace[1]))
    /\ (Done /\ op.name \in SwitchOps /\ call.plug >= 1) =>
          /\ Len(trace) \in {1, 2}
          /\ IsGet(trace[1])

C16_Witness ==
    /\ Done /\ op.name \in SwitchOps
    /\ call.plug >= 1
    /\ Len(trace) = 2
    /\ IsGet(trace[1]) /\ IsSet(trace[2])

(* C18: the state queries send get_sysinfo only, never set_relay_state, and *)
(* get_psu_state contacts the main outlet's address and no other.           *)
C18_QueriesReadOnly ==
    op.name \in QueryOps =>
        /\ Len(trace) <= 1
        /\ \A i \in 1..Len(trace) : IsGet(trace[i]) /\ ~IsSet(trace[i])
        /\ op.name = "get_psu_state" =>
              \A i \in 1..Len(trace) :
                  trace[i].outlet = "main" /\ trace[i].host = config.address
        /\ op.name = "get_light_state" =>
              \A i \in 1..Len(trace) : trace[i].host = config.lightAddress
        /\ op.name = "get_other_state" =>
              \A i \in 1..Len(trace) : trace[i].host = config.otherAddress

C18_Witness ==
    /\ op.name = "get_psu_state" /\ Done
    /\ Len(trace) = 1
    /\ config.lightEnabled
    /\ config.lightAddress # config.address
    /\ result = PyTrue

(* C14: for a command text of length L, encrypt gives the prefix 0, 0, 0,    *)
(* L mod 256 followed by exactly L encoded bytes.                           *)
C14_LengthPrefix ==
    /\ cdc.pc # "raised"
    /\ cdc.pc \in {"encrypted", "decrypting", "decrypted"} =>
          /\ Len(cdc.frame.v.v) = 4 + Len(cdc.text)
          /\ SubSeq(cdc.frame.v.v, 1, 4) = <<0, 0, 0, Len(cdc.text) % 256>>

C11_SocketClosedOnReturn ==
    tp.pc = "returned" =>
        \A i \in 1..Len(tp.socks) : tp.socks[i].connected => tp.socks[i].closed

(* C12: an exchange whose device sent a valid prefix and fewer payload      *)
(* bytes than it announces, and then is silent or closes, ends with the     *)
(* empty result.                                                            *)
C12_ShortReplyTerminates ==
    [](ShortReply => <>(tp.pc = "returned" /\ tp.ret = Ret(EmptyDict)))

(* C13: when the device sent the whole frame it announces, however the      *)
(* bytes were split over the reads, send() decodes bytes 4..4+L of the      *)
(* stream and no others.                                                    *)
C13_DecodesExactFrame ==
    (tp.pc \in {"returned", "raised"} /\ Replied /\ WholeFrame(tp.stream)) =>
        tp.decoded = Ret(PyBytes(SubSeq(tp.stream, 5, 4 + Announced(tp.stream))))

(* C17: every socket is used by the one exchange that made it, is connected *)
(* at most once, to port 9999, and is written at most once; no exchange     *)
(* makes two sockets.                                                       *)
C17_FreshConnectionNoRetry ==
    /\ \A i \in 1..Len(tp.socks) :
        LET sock == tp.socks[i] IN
        /\ sock.users \subseteq {sock.xid}
        /\ sock.connects <= 1
        /\ sock.frames <= 1
        /\ sock.connects = 1 => sock.port = Port
    /\ \A i, j \in 1..Len(tp.socks) : i < j => tp.socks[i].xid < tp.socks[j].xid

C17_Witness ==
    /\ tp.xid = 2
    /\ tp.pc = "returned"
    /\ tp.ret = Ret(EmptyDict)
    /\ Len(tp.socks) = 2
    /\ tp.socks[1].frames = 1 /\ ~tp.socks[1].written
    /\ tp.socks[2].written /\ tp.socks[2].closed
    /\ tp.socks[1].port = Port /\ tp.socks[2].port = Port

====
